---- MODULE Spec2Model ----
\* The live editing engine of LivePreview (src/components/InputArea.tsx) together
\* with the artifact list, the generation requests and the session token
\* counter of App (src/App.tsx): the text buffer, the debounced copy, the
\* undo/redo stack, the two setTimeout channels and the persist callback.  One action is one browser event (a user event or a timer callback)
\* followed by the React renders and effect runs it causes.
EXTENDS Integers, Sequences, FiniteSets, TLC

VARIABLES
    activeCreation,   \* App: activeCreation (the `creation` prop), Null when none
    appHistory,       \* App: history, the list of stored creations
    isGenerating,     \* App: a generation is shown as running
    sessionTokens,    \* App: tokens used in the session
    pending,          \* bringToLife calls not yet settled: started since the last
                      \* reset (fresh) and before it (stale)
    editableCode,     \* LivePreview: the live buffer
    debouncedCode,    \* LivePreview: the debounce-settled copy
    showCodeEditor,   \* LivePreview: TRUE in editor mode, FALSE in view mode
    isSyncing,        \* LivePreview: sync indicator flag
    lastSaved,        \* LivePreview: TRUE when lastSaved is a Date, FALSE when null
    history,          \* LivePreview: the snapshot stack
    historyIndex,     \* LivePreview: 0-based index into history, -1 before any load
    isInternalChange, \* LivePreview: ref set by undo/redo
    prevCreationId,   \* LivePreview: ref holding the id of the last seen creation
    previewTimer,     \* ms left on the pending 800ms timer, NoTimer when none
    snapTimer,        \* ms left on the pending 1000ms timer, NoTimer when none
    previewArgs,      \* <<values>> the pending 800ms callback closes over, or << >>
    snapArgs,         \* <<values>> the pending 1000ms callback closes over, or << >>
    persistCall,      \* observer: <<call>> made to onUpdate by the last event, or << >>
    pushCall,         \* observer: <<push>> made on the stack by the last event, or << >>
    bufOwner,         \* observer: id of the creation under which editableCode was written
    burst,            \* observer: bookkeeping of the current burst of edits
    trip,             \* observer: an undo and the redo that follows it at once
    scen,             \* observer: progress of a load, one edit, undo, redo sequence
    saved,            \* observer: a manual save whose buffer has not changed since
    hop,              \* observer: <<stack>> before the first undo/redo since the last edit
    exported,         \* observer: <<file>> written by the last event, or << >>
    genCall           \* observer: what the last event did about a generation

appVars == <<activeCreation, appHistory>>
lpVars == <<editableCode, debouncedCode, isSyncing, lastSaved, history, historyIndex,
            isInternalChange, prevCreationId, showCodeEditor>>
timerVars == <<previewTimer, snapTimer, previewArgs, snapArgs>>
genVars == <<isGenerating, sessionTokens, pending>>
obsVars == <<persistCall, pushCall, bufOwner, burst, trip, scen, saved, hop, exported,
             genCall>>
vars == <<appVars, genVars, lpVars, timerVars, obsVars>>

------------------------------------------------------------------------------
\* Program constants and model bounds

Dp == 800
Ds == 1000
HistCap == 100
SESSION_TOKEN_LIMIT == 2000000

NoTimer == -1

MaxHist == 3
CapSlack == 1
MaxStored == 1
MaxViewHist == 1
MaxGen == 2

RECURSIVE GCD(_, _)
GCD(a, b) == IF b = 0 THEN a ELSE GCD(b, a % b)

\* time advances in steps of the largest unit that divides both delays
TickMs == GCD(Dp, Ds)

Min(a, b) == IF a < b THEN a ELSE b

Ids == {"a1", "a2"}
NullId == "null"
Texts == {"", "A", "B"}
\* a creation's name goes with its id
NameOf(id) == IF id = "a1" THEN "n1" ELSE "n2"
Creations == {[id |-> i, html |-> h, name |-> NameOf(i)] : i \in Ids, h \in Texts}
Null == [id |-> NullId, html |-> "", name |-> ""]

\* crypto.randomUUID(): the ids given to generated creations, in order, none
\* of them the id of a stored or imported creation
GenIds == <<"g1", "g2", "g3", "g4">>

\* result.html of a settled bringToLife call ("" also stands for a call that
\* threw), and result.usage.totalTokenCount (0 also stands for no usage)
GenTexts == {"", "A"}
Usages == {0, 300000}

\* the token counts read from local storage at mount
StoredTokens == {0, 1800000}

\* the files the model imports
ImportFiles == {[id |-> "a2", html |-> "B", name |-> "n2"]}

\* the stored lists the model starts from: up to MaxStored records with
\* pairwise distinct ids
InitialStores ==
    {s \in UNION {[1..n -> Creations] : n \in 0..MaxStored} :
        \A i, j \in DOMAIN s : i # j => s[i].id # s[j].id}

------------------------------------------------------------------------------
\* App

\* handleUpdateCreation: prev.map(c => c.id === updated.id ? updated : c)
UpdateCreationAll(list, updated) == [i \in DOMAIN list |-> updated]

UpdateCreation(list, updated) ==
    [i \in DOMAIN list |-> IF list[i].id = updated.id THEN updated ELSE list[i]]

\* handleImportFile: exists ? prev : [importedCreation, ...prev]
ImportAlways(list, c) == <<c>> \o list

ImportCreation(list, c) ==
    IF \E i \in DOMAIN list : list[i].id = c.id THEN list ELSE <<c>> \o list

\* isLimitReached: (sessionTokens / SESSION_TOKEN_LIMIT) * 100 >= 95
LimitNever(tokens) == FALSE

IsLimitReached(tokens) == tokens * 100 >= 95 * SESSION_TOKEN_LIMIT

\* the number of creations generated so far, and the id of the next one
Generated(list) == Cardinality({i \in DOMAIN list : \E k \in DOMAIN GenIds : list[i].id = GenIds[k]})
NewId(list) == GenIds[Generated(list) + 1]

\* handleGenerate: [newCreation, ...prev]
Prepend(list, c) == <<c>> \o list

NoPending == [fresh |-> 0, stale |-> 0]
InFlight == pending.fresh + pending.stale

------------------------------------------------------------------------------
\* LivePreview effects

\* preview-sync effect re-run: the cleanup clears the old timer, then a timer
\* is armed unless editableCode === debouncedCode
PreviewSyncNoCancel(ed, deb, old) ==
    IF ed = deb THEN NoTimer ELSE IF old # NoTimer THEN old ELSE Dp

PreviewSyncKeep(ed, deb, old) == IF ed = deb THEN old ELSE Dp

PreviewSyncRearm(ed, deb, old) == Dp

PreviewSyncEffect(ed, deb, old) == IF ed = deb THEN NoTimer ELSE Dp

\* the same run's setIsSyncing(true)
PreviewSyncFlag(ed, deb, sync) == IF ed = deb THEN sync ELSE TRUE

\* the values the pending preview timer's callback closes over: those of the
\* render that armed it
NoTask == << >>

PreviewClosureStale(ed, cr, timer, old) ==
    IF timer = NoTimer THEN NoTask
    ELSE IF old # NoTask THEN old
    ELSE <<[code |-> ed, cr |-> cr]>>

PreviewClosure(ed, cr, timer, old) ==
    IF timer = NoTimer THEN NoTask
    ELSE IF timer = Dp THEN <<[code |-> ed, cr |-> cr]>>
    ELSE old

\* {...creation, html: editableCode, timestamp: new Date()}
Clone(cr, code) == [cr EXCEPT !.html = code]

\* snapshot-capture effect re-run: the cleanup clears the old timer, then a
\* timer is armed unless isInternalChange.current was set
SnapshotNoCancel(internal, old) == IF internal THEN old ELSE Ds

SnapshotNoRearm(internal, old) ==
    IF internal THEN NoTimer ELSE IF old # NoTimer THEN old ELSE Ds

SnapshotEffect(internal, old) == IF internal THEN NoTimer ELSE Ds

\* the snapshot timer after the preview timer's callback: creation and
\* onUpdate are not among the deps of the snapshot effect, so a persist call
\* leaves the pending timer alone
SnapshotRearmOnPersist(persist, old) == IF persist THEN Ds ELSE old

SnapshotOnPersist(persist, old) == old

\* the values the pending snapshot timer's callback closes over
SnapshotClosure(ed, h, i, timer, old) ==
    IF timer = NoTimer THEN NoTask
    ELSE IF timer = Ds THEN <<[code |-> ed, history |-> h, idx |-> i]>>
    ELSE old

\* the setHistory updater of the snapshot timer
PushNoShift(h, i, e) == Append(SubSeq(h, 1, i + 1), e)

PushNoSlice(h, i, e) ==
    LET nh == Append(h, e) IN IF Len(nh) > HistCap THEN Tail(nh) ELSE nh

PushSnapshot(h, i, e) ==
    LET nh == Append(SubSeq(h, 1, i + 1), e)
    IN IF Len(nh) > HistCap THEN Tail(nh) ELSE nh

\* the setHistoryIndex updater of the snapshot timer
NextIndexNoClamp(i) == i + 1

NextIndex(i) == Min(i + 1, HistCap - 1)

\* the snapshot timer's condition
ShouldPushNoCompare(ed, h, i) == ed # "" /\ Len(h) > 0

ShouldPush(ed, h, i) == ed # "" /\ Len(h) > 0 /\ ed # h[i + 1]

\* the preview timer's auto-save condition
ShouldPersistAlways(cr, ed) == cr # Null

ShouldPersist(cr, ed) == cr # Null /\ ed # cr.html

\* the index handleUndo and handleRedo move to
UndoToBottom(i) == 0

UndoIndex(i) == i - 1
RedoIndex(i) == i + 1

\* the disabled conditions of the undo and redo buttons
UndoDisabled == historyIndex <= 0
RedoDisabled == historyIndex >= Len(history) - 1

\* the panes are rendered only for creation?.html, and not while isLoading
PreviewShown == ~isGenerating /\ activeCreation # Null /\ activeCreation.html # ""

\* the editor pane with its textarea is rendered in editor mode only
EditorShown == showCodeEditor /\ PreviewShown

\* the key of the editor-mode iframe: key={debouncedCode.length}
IframeKey == Len(debouncedCode)

\* the srcDoc of the iframe: editor mode and view mode
SrcDoc == IF showCodeEditor THEN debouncedCode ELSE editableCode

\* handleExport: the file written, {...creation, html: editableCode}
ExportDebounced(cr, ed, deb) == Clone(cr, deb)

ExportFile(cr, ed, deb) == Clone(cr, ed)

------------------------------------------------------------------------------
\* Observer bookkeeping (not program state)

SinceCap == Ds + TickMs
IdleBurst == [ok |-> FALSE, since |-> SinceCap, short |-> TRUE, edits |-> 0,
              nPersist |-> 0, nPush |-> 0, persisted |-> "", pushed |-> "",
              h0 |-> << >>, i0 |-> -1, d0 |-> ""]

\* an edit continues the open burst when it comes less than Ds after the
\* previous edit, and opens a new burst otherwise; short records that every
\* gap of the burst was smaller than Dp; h0, i0 and d0 are the stack, the index
\* and the debounced copy the burst started from
BurstEdit ==
    IF burst.ok /\ burst.since < Ds
    THEN [burst EXCEPT !.since = 0, !.short = burst.short /\ burst.since < Dp,
                       !.edits = Min(burst.edits + 1, 2)]
    ELSE [IdleBurst EXCEPT !.ok = TRUE, !.since = 0, !.edits = 1,
                           !.h0 = history, !.i0 = historyIndex, !.d0 = debouncedCode]

BurstTick ==
    IF burst.ok THEN [burst EXCEPT !.since = Min(burst.since + TickMs, SinceCap)]
    ELSE burst

BurstFire(pc, sc) ==
    IF burst.ok
    THEN [burst EXCEPT !.nPersist = Min(burst.nPersist + Len(pc), 2),
                       !.nPush = Min(burst.nPush + Len(sc), 2),
                       !.persisted = IF pc # << >> THEN pc[1].html ELSE burst.persisted,
                       !.pushed = IF sc # << >> THEN sc[1].text ELSE burst.pushed]
    ELSE burst

\* a push of the snapshot timer: the text, and the index and stack length it
\* was made at
Push(text, at, len) == <<[text |-> text, at |-> at, len |-> len]>>

\* a call of onUpdate: who made it and the creation it hands over
Call(by, cr) == <<[by |-> by, id |-> cr.id, html |-> cr.html, name |-> cr.name]>>

\* the burst has ended: Ds and more have passed since its last edit, and every
\* timer that was due has fired
Quiet == burst.ok /\ burst.since = SinceCap

\* last is the handler the last event called: "undo" or "redo" when it acted,
\* "noopUndo" or "noopRedo" when its guard was false, "load" when the creation
\* prop was set, "noopEdit" from an edit that comes right after a no-op undo
\* or redo until the edit has settled
\* or "hopEdit" from the first edit after an undo or redo; armed tells
\* whether a snapshot timer was pending when undo or redo was called
NoTrip == [phase |-> "none", text |-> "", last |-> "none", armed |-> FALSE]
TripUndo == [phase |-> "undone", text |-> editableCode, last |-> "undo",
             armed |-> snapTimer # NoTimer]
TripRedo ==
    IF trip.phase = "undone"
    THEN [trip EXCEPT !.phase = "redone", !.last = "redo", !.armed = snapTimer # NoTimer]
    ELSE [NoTrip EXCEPT !.last = "redo", !.armed = snapTimer # NoTimer]
TripNoop(h) == [NoTrip EXCEPT !.last = h]
TripEdit ==
    IF trip.last \in {"noopUndo", "noopRedo"} THEN [NoTrip EXCEPT !.last = "noopEdit"]
    ELSE IF hop # << >> THEN [NoTrip EXCEPT !.last = "hopEdit"]
    ELSE NoTrip
TripWait == IF trip.last \in {"noopEdit", "hopEdit"} THEN trip ELSE NoTrip

\* saved.on: handleSave ran and the buffer has not changed since; saved.fired:
\* the last event was a timer callback that ran while saved.on; saved.fire:
\* the timer whose callback the last event was; saved.auto: the preview timer
\* made a persist call and the buffer has not changed since
NoSave == [on |-> FALSE, fired |-> FALSE, fire |-> "none", auto |-> FALSE]
SaveDone == [on |-> TRUE, fired |-> FALSE, fire |-> "none", auto |-> saved.auto]
SaveFire(timer, pc) ==
    [saved EXCEPT !.fired = saved.on, !.fire = timer, !.auto = saved.auto \/ pc # << >>]
SaveWait == [saved EXCEPT !.fired = FALSE, !.fire = "none"]

\* the stack before the first of the undos and redos made since the last edit
HopFrom == IF hop = << >> THEN <<history>> ELSE hop

NoScen == [phase |-> "none", c |-> "", t |-> ""]
ScenLoad(c) == [phase |-> "loaded", c |-> c.html, t |-> ""]
ScenEdit(t) ==
    IF scen.phase = "loaded" THEN [scen EXCEPT !.phase = "edited", !.t = t] ELSE NoScen
ScenUndo ==
    IF scen.phase = "edited" /\ Quiet THEN [scen EXCEPT !.phase = "undone"] ELSE NoScen
ScenRedo == IF scen.phase = "undone" THEN [scen EXCEPT !.phase = "redone"] ELSE NoScen

Observe(pc, sc, owner, b, tr, sn) ==
    /\ persistCall' = pc
    /\ pushCall' = sc
    /\ bufOwner' = owner
    /\ burst' = b
    /\ trip' = tr
    /\ scen' = sn

Observe2(sv, hp) ==
    /\ saved' = sv
    /\ hop' = hp
    /\ exported' = << >>

\* the event leaves the generation state alone
NoGen ==
    /\ UNCHANGED genVars
    /\ genCall' = "none"

------------------------------------------------------------------------------
\* Initial state: App mounted with its stored list read, LivePreview mounted
\* with no creation; the mount run of the snapshot effect has armed its timer.

InitLive ==
    /\ activeCreation = Null
    /\ appHistory \in InitialStores
    /\ isGenerating = FALSE
    /\ pending = NoPending
    /\ genCall = "none"
    /\ editableCode = ""
    /\ debouncedCode = ""
    /\ showCodeEditor = FALSE
    /\ isSyncing = FALSE
    /\ lastSaved = FALSE
    /\ history = << >>
    /\ historyIndex = -1
    /\ isInternalChange = FALSE
    /\ prevCreationId = NullId
    /\ previewTimer = NoTimer
    /\ snapTimer = Ds
    /\ previewArgs = NoTask
    /\ snapArgs = SnapshotClosure("", << >>, -1, Ds, NoTask)
    /\ persistCall = << >>
    /\ pushCall = << >>
    /\ bufOwner = NullId
    /\ burst = IdleBurst
    /\ trip = NoTrip
    /\ scen = NoScen
    /\ saved = NoSave
    /\ hop = << >>
    /\ exported = << >>

\* a session that has used no tokens yet
Init == InitLive /\ sessionTokens = 0

\* a session that goes on from the token count of local storage
InitApp == InitLive /\ sessionTokens \in StoredTokens

------------------------------------------------------------------------------
\* Actions

\* LivePreview after the `creation` prop became c: the load effect, the
\* preview-sync effect of the same render (creation is one of its deps, so it
\* is cleaned up and re-run with the not yet reset state), and, when the load
\* effect set state, the effects of the render that follows.
LoadRender(c) ==
    LET fresh == c.id # prevCreationId
        reset == fresh /\ c.html # ""
        t1 == PreviewSyncEffect(editableCode, debouncedCode, previewTimer)
        a1 == PreviewClosure(editableCode, c, t1, previewArgs)
        s1 == PreviewSyncFlag(editableCode, debouncedCode, isSyncing)
    IN /\ prevCreationId' = c.id
       /\ IF reset
          THEN /\ editableCode' = c.html
               /\ debouncedCode' = c.html
               /\ history' = <<c.html>>
               /\ historyIndex' = 0
               /\ lastSaved' = FALSE
               /\ previewTimer' = PreviewSyncEffect(c.html, c.html, t1)
               /\ previewArgs' = PreviewClosure(c.html, c, previewTimer', a1)
               /\ isSyncing' = PreviewSyncFlag(c.html, c.html, s1)
               /\ snapTimer' = SnapshotEffect(isInternalChange, snapTimer)
               /\ snapArgs' = SnapshotClosure(c.html, <<c.html>>, 0, snapTimer', snapArgs)
               /\ isInternalChange' = FALSE
          ELSE /\ previewTimer' = t1
               /\ previewArgs' = a1
               /\ isSyncing' = s1
               /\ UNCHANGED <<editableCode, debouncedCode, history, historyIndex,
                              lastSaved, snapTimer, snapArgs, isInternalChange>>
       /\ Observe(<< >>, << >>, IF reset THEN c.id ELSE bufOwner, IdleBurst,
                  TripNoop("load"),
                  IF fresh THEN ScenLoad(c) ELSE NoScen)
       /\ Observe2(IF reset THEN NoSave ELSE SaveWait, IF reset THEN << >> ELSE hop)
       /\ UNCHANGED showCodeEditor

\* handleSelectCreation: a card of the list is clicked; the list is reachable
\* only while no creation is focused
Select(i) ==
    /\ activeCreation = Null
    /\ ~isGenerating
    /\ i \in DOMAIN appHistory
    /\ NoGen
    /\ activeCreation' = appHistory[i]
    /\ UNCHANGED appHistory
    /\ LoadRender(appHistory[i])

\* handleImportFile: a file with html and name is imported (the import button
\* stays reachable while a creation is focused)
Import(c) ==
    /\ c.html # ""
    /\ NoGen
    /\ appHistory' = ImportCreation(appHistory, c)
    /\ activeCreation' = c
    /\ LoadRender(c)

\* handleReset: the creation prop becomes null and isGenerating false;
\* LivePreview stays mounted, and a running bringToLife call goes on
Reset ==
    /\ activeCreation # Null \/ isGenerating
    /\ activeCreation' = Null
    /\ isGenerating' = FALSE
    /\ pending' = [fresh |-> 0, stale |-> InFlight]
    /\ UNCHANGED sessionTokens
    /\ genCall' = "none"
    /\ UNCHANGED appHistory
    /\ prevCreationId' = NullId
    /\ previewTimer' = PreviewSyncEffect(editableCode, debouncedCode, previewTimer)
    /\ previewArgs' = PreviewClosure(editableCode, Null, previewTimer', previewArgs)
    /\ isSyncing' = PreviewSyncFlag(editableCode, debouncedCode, isSyncing)
    /\ UNCHANGED <<editableCode, debouncedCode, history, historyIndex, lastSaved,
                   snapTimer, snapArgs, isInternalChange>>
    /\ Observe(<< >>, << >>, bufOwner, IdleBurst, NoTrip, NoScen)
    /\ Observe2([NoSave EXCEPT !.auto = saved.auto], << >>)
    /\ UNCHANGED showCodeEditor

\* LivePreview re-rendered by App with the creation prop cr unchanged:
\* onUpdate is a new function in every render of App, so the preview-sync
\* effect is cleaned up and re-run
RenderOnly(cr) ==
    /\ previewTimer' = PreviewSyncEffect(editableCode, debouncedCode, previewTimer)
    /\ previewArgs' = PreviewClosure(editableCode, cr, previewTimer', previewArgs)
    /\ isSyncing' = PreviewSyncFlag(editableCode, debouncedCode, isSyncing)
    /\ UNCHANGED <<editableCode, debouncedCode, history, historyIndex, lastSaved,
                   snapTimer, snapArgs, isInternalChange, prevCreationId,
                   showCodeEditor>>
    /\ Observe(<< >>, << >>, bufOwner, IdleBurst, NoTrip, NoScen)
    /\ Observe2([NoSave EXCEPT !.auto = saved.auto], << >>)

\* an event that sets no state: nothing is rendered
NoRender ==
    /\ UNCHANGED <<lpVars, timerVars>>
    /\ Observe(<< >>, << >>, bufOwner, burst, TripWait, scen)
    /\ Observe2(SaveWait, hop)

\* handleSubmit calling handleGenerate: nothing happens once isLimitReached,
\* else isGenerating is set and the bringToLife call is started
Generate ==
    /\ activeCreation = Null
    /\ ~isGenerating
    /\ IF IsLimitReached(sessionTokens)
       THEN /\ UNCHANGED <<appVars, genVars>>
            /\ NoRender
            /\ genCall' = "refused"
       ELSE /\ isGenerating' = TRUE
            /\ activeCreation' = Null
            /\ pending' = [pending EXCEPT !.fresh = @ + 1]
            /\ UNCHANGED <<appHistory, sessionTokens>>
            /\ RenderOnly(Null)
            /\ genCall' = "started"

\* a bringToLife call started before (stale) or since (not stale) the last
\* reset settles with html and usage: with html the tokens are added and the
\* new creation is made active and prepended; finally isGenerating is cleared
Settle(html, usage, stale) ==
    /\ IF stale THEN pending.stale > 0 ELSE pending.fresh > 0
    /\ pending' = IF stale THEN [pending EXCEPT !.stale = @ - 1]
                  ELSE [pending EXCEPT !.fresh = @ - 1]
    /\ isGenerating' = FALSE
    /\ IF html # ""
       THEN LET c == [id |-> NewId(appHistory), html |-> html,
                      name |-> NameOf(NewId(appHistory))]
            IN /\ sessionTokens' = sessionTokens + usage
               /\ activeCreation' = c
               /\ appHistory' = Prepend(appHistory, c)
               /\ LoadRender(c)
               /\ genCall' = IF stale THEN "staleLoaded" ELSE "loaded"
       ELSE /\ UNCHANGED <<appVars, sessionTokens>>
            /\ IF isGenerating THEN RenderOnly(activeCreation) ELSE NoRender
            /\ genCall' = "settled"

\* the textarea's onChange: setEditableCode(t)
Edit(t) ==
    /\ EditorShown
    /\ t # editableCode
    /\ editableCode' = t
    /\ previewTimer' = PreviewSyncEffect(t, debouncedCode, previewTimer)
    /\ previewArgs' = PreviewClosure(t, activeCreation, previewTimer', previewArgs)
    /\ isSyncing' = PreviewSyncFlag(t, debouncedCode, isSyncing)
    /\ snapTimer' = SnapshotEffect(isInternalChange, snapTimer)
    /\ snapArgs' = SnapshotClosure(t, history, historyIndex, snapTimer', snapArgs)
    /\ isInternalChange' = FALSE
    /\ UNCHANGED <<appVars, debouncedCode, history, historyIndex, lastSaved,
                   prevCreationId>>
    /\ Observe(<< >>, << >>, activeCreation.id, BurstEdit, TripEdit, ScenEdit(t))
    /\ Observe2(NoSave, << >>)
    /\ UNCHANGED showCodeEditor
    /\ NoGen

\* an undo or redo that only writes the snapshot into the buffer, as an edit
\* does
RestoreBufferOnly(nextIdx, tr, sn) ==
    LET text == history[nextIdx + 1]
        changed == text # editableCode
    IN /\ editableCode' = text
       /\ previewTimer' = IF changed
                          THEN PreviewSyncEffect(text, debouncedCode, previewTimer)
                          ELSE previewTimer
       /\ previewArgs' = IF changed
                         THEN PreviewClosure(text, activeCreation, previewTimer',
                                             previewArgs)
                         ELSE previewArgs
       /\ isSyncing' = IF changed
                       THEN PreviewSyncFlag(text, debouncedCode, isSyncing)
                       ELSE isSyncing
       /\ snapTimer' = IF changed THEN SnapshotEffect(isInternalChange, snapTimer)
                        ELSE snapTimer
       /\ snapArgs' = IF changed
                      THEN SnapshotClosure(text, history, historyIndex, snapTimer',
                                           snapArgs)
                      ELSE snapArgs
       /\ isInternalChange' = IF changed THEN FALSE ELSE isInternalChange
       /\ UNCHANGED <<appVars, debouncedCode, history, historyIndex, lastSaved,
                      prevCreationId>>
       /\ Observe(<< >>, << >>, activeCreation.id, IdleBurst, tr, sn)
       /\ Observe2(IF text # editableCode THEN NoSave ELSE SaveWait, HopFrom)
       /\ UNCHANGED showCodeEditor
       /\ NoGen

\* handleUndo / handleRedo moving the index to nextIdx, then the render: the
\* preview-sync effect re-runs when editableCode changed, the snapshot effect
\* re-runs (historyIndex changed) and consumes isInternalChange
Restore(nextIdx, tr, sn) ==
    LET text == history[nextIdx + 1]
    IN /\ historyIndex' = nextIdx
       /\ editableCode' = text
       /\ previewTimer' = IF text # editableCode
                          THEN PreviewSyncEffect(text, debouncedCode, previewTimer)
                          ELSE previewTimer
       /\ previewArgs' = IF text # editableCode
                         THEN PreviewClosure(text, activeCreation, previewTimer',
                                             previewArgs)
                         ELSE previewArgs
       /\ isSyncing' = IF text # editableCode
                       THEN PreviewSyncFlag(text, debouncedCode, isSyncing)
                       ELSE isSyncing
       /\ snapTimer' = SnapshotEffect(TRUE, snapTimer)
       /\ snapArgs' = SnapshotClosure(text, history, nextIdx, snapTimer', snapArgs)
       /\ isInternalChange' = FALSE
       /\ UNCHANGED <<appVars, debouncedCode, history, lastSaved, prevCreationId>>
       /\ Observe(<< >>, << >>, activeCreation.id, IdleBurst, tr, sn)
       /\ Observe2(IF text # editableCode THEN NoSave ELSE SaveWait, HopFrom)
       /\ UNCHANGED showCodeEditor
       /\ NoGen

\* handleUndo / handleRedo setting isInternalChange before testing its guard
IdleFlagged(h) ==
    /\ isInternalChange' = TRUE
    /\ UNCHANGED <<appVars, editableCode, debouncedCode, isSyncing, lastSaved, history,
                   historyIndex, prevCreationId, timerVars>>
    /\ Observe(<< >>, << >>, bufOwner, IdleBurst, TripNoop(h), NoScen)
    /\ Observe2(SaveWait, hop)
    /\ UNCHANGED showCodeEditor
    /\ NoGen

\* handleUndo / handleRedo with its guard false
Idle(h) ==
    /\ UNCHANGED <<appVars, lpVars, timerVars>>
    /\ NoGen
    /\ Observe(<< >>, << >>, bufOwner, IdleBurst, TripNoop(h), NoScen)
    /\ Observe2(SaveWait, hop)

Undo ==
    /\ EditorShown
    /\ IF historyIndex > 0
       THEN Restore(UndoIndex(historyIndex), TripUndo, ScenUndo) ELSE Idle("noopUndo")

Redo ==
    /\ EditorShown
    /\ IF historyIndex < Len(history) - 1
       THEN Restore(RedoIndex(historyIndex), TripRedo, ScenRedo) ELSE Idle("noopRedo")

\* handleSave
Save ==
    /\ activeCreation # Null
    /\ ~isGenerating
    /\ LET updated == Clone(activeCreation, editableCode)
       IN /\ appHistory' = UpdateCreation(appHistory, updated)
          /\ activeCreation' = updated
          /\ lastSaved' = TRUE
          /\ debouncedCode' = editableCode
          /\ previewTimer' = PreviewSyncEffect(editableCode, editableCode, previewTimer)
          /\ previewArgs' = PreviewClosure(editableCode, updated, previewTimer',
                                           previewArgs)
          /\ isSyncing' = PreviewSyncFlag(editableCode, editableCode, isSyncing)
          /\ UNCHANGED <<editableCode, history, historyIndex, isInternalChange,
                         prevCreationId, snapTimer, snapArgs>>
          /\ Observe(Call("save", updated), << >>, bufOwner, IdleBurst, NoTrip, NoScen)
          /\ Observe2(SaveDone, hop)
          /\ UNCHANGED showCodeEditor
          /\ NoGen

\* the 800ms timer's callback, which reads the values it closed over, then
\* the render it causes
PreviewFire ==
    /\ previewTimer = 0
    /\ previewArgs # NoTask
    /\ LET task == previewArgs[1]
           persist == ShouldPersist(task.cr, task.code)
           updated == Clone(task.cr, task.code)
           pc == IF persist THEN Call("timer", updated) ELSE << >>
       IN /\ debouncedCode' = task.code
          /\ appHistory' = IF persist THEN UpdateCreation(appHistory, updated)
                           ELSE appHistory
          /\ activeCreation' = IF persist THEN updated ELSE activeCreation
          /\ lastSaved' = IF persist THEN TRUE ELSE lastSaved
          /\ previewTimer' = PreviewSyncEffect(editableCode, task.code, NoTimer)
          /\ previewArgs' = PreviewClosure(editableCode, activeCreation', previewTimer',
                                           NoTask)
          /\ isSyncing' = PreviewSyncFlag(editableCode, task.code, FALSE)
          /\ snapTimer' = SnapshotOnPersist(persist, snapTimer)
          /\ snapArgs' = IF snapTimer' = snapTimer THEN snapArgs
                         ELSE SnapshotClosure(editableCode, history, historyIndex,
                                              snapTimer', snapArgs)
          /\ UNCHANGED <<editableCode, history, historyIndex, isInternalChange,
                         prevCreationId>>
          /\ Observe(pc, << >>, bufOwner, BurstFire(pc, << >>), TripWait, scen)
          /\ Observe2(SaveFire("preview", pc), hop)
          /\ UNCHANGED showCodeEditor
          /\ NoGen

\* the 1000ms timer's callback, which reads the values it closed over (the
\* updaters of setHistory and setHistoryIndex get the current state), then
\* the render it causes
SnapFire ==
    /\ snapTimer = 0
    /\ snapArgs # NoTask
    /\ LET task == snapArgs[1]
       IN IF ShouldPush(task.code, task.history, task.idx)
          THEN /\ history' = PushSnapshot(history, task.idx, task.code)
               /\ historyIndex' = NextIndex(historyIndex)
               /\ snapTimer' = SnapshotEffect(isInternalChange, NoTimer)
               /\ snapArgs' = SnapshotClosure(editableCode, history', historyIndex',
                                              snapTimer', NoTask)
               /\ isInternalChange' = FALSE
               /\ LET sc == Push(task.code, historyIndex, Len(history))
                  IN Observe(<< >>, sc, bufOwner, BurstFire(<< >>, sc), TripWait, scen)
          ELSE /\ snapTimer' = NoTimer
               /\ snapArgs' = NoTask
               /\ UNCHANGED <<history, historyIndex, isInternalChange>>
               /\ Observe(<< >>, << >>, bufOwner, burst, TripWait, scen)
    /\ Observe2(SaveFire("snap", << >>), hop)
    /\ UNCHANGED showCodeEditor
    /\ NoGen
    /\ UNCHANGED <<appVars, editableCode, debouncedCode, isSyncing, lastSaved,
                   prevCreationId, previewTimer, previewArgs>>

\* the code button: setShowCodeEditor(!showCodeEditor); no effect depends on it
Toggle ==
    /\ activeCreation # Null
    /\ ~isGenerating
    /\ NoGen
    /\ showCodeEditor' = ~showCodeEditor
    /\ UNCHANGED <<appVars, editableCode, debouncedCode, isSyncing, lastSaved, history,
                   historyIndex, isInternalChange, prevCreationId, timerVars>>
    /\ Observe(<< >>, << >>, bufOwner, burst, TripWait, scen)
    /\ saved' = SaveWait
    /\ hop' = hop
    /\ exported' = << >>

\* handleExport: writes a file and sets no state
Export ==
    /\ activeCreation # Null
    /\ ~isGenerating
    /\ NoGen
    /\ exported' = <<ExportFile(activeCreation, editableCode, debouncedCode)>>
    /\ UNCHANGED <<appVars, lpVars, timerVars>>
    /\ Observe(<< >>, << >>, bufOwner, burst, TripWait, scen)
    /\ saved' = SaveWait
    /\ hop' = hop

\* TickMs of time pass; a timer that is due fires before time moves on
Elapse(t) == IF t > 0 THEN t - TickMs ELSE t

Tick ==
    /\ previewTimer # 0
    /\ snapTimer # 0
    /\ previewTimer > 0 \/ snapTimer > 0 \/ (burst.ok /\ burst.since < SinceCap)
    /\ previewTimer' = Elapse(previewTimer)
    /\ snapTimer' = Elapse(snapTimer)
    /\ UNCHANGED <<appVars, lpVars, previewArgs, snapArgs>>
    /\ NoGen
    /\ Observe(<< >>, << >>, bufOwner, BurstTick, TripWait, scen)
    /\ Observe2(SaveWait, hop)

\* exploration bound on the edits: a push keeps the stack within MaxHist
\* entries, or the stack is within CapSlack of its capacity
EditInBounds == historyIndex + 1 < MaxHist \/ Len(history) >= HistCap - CapSlack

\* exploration bound on undo and redo in a long stack: the index stays near
\* the bottom or within CapSlack + 1 of the top
NearEnd(i) == i <= MaxHist \/ i >= Len(history) - 2 - CapSlack
UndoInBounds == NearEnd(historyIndex - 1)
RedoInBounds == NearEnd(historyIndex + 1)

\* exploration bound on leaving editor mode and on the export: they are
\* explored while the stack holds at most MaxViewHist entries
ViewInBounds == ~showCodeEditor \/ Len(history) <= MaxViewHist
ExportInBounds == Len(history) <= MaxViewHist /\ exported = << >>

Next ==
    \/ \E i \in 1..(Cardinality(Ids) + MaxGen) : Select(i)
    \/ \E c \in ImportFiles : Import(c)
    \/ Reset
    \/ \E t \in Texts : EditInBounds /\ Edit(t)
    \/ UndoInBounds /\ Undo
    \/ RedoInBounds /\ Redo
    \/ Save
    \/ ViewInBounds /\ Toggle
    \/ ExportInBounds /\ Export
    \/ PreviewFire
    \/ SnapFire
    \/ Tick

Spec == Init /\ [][Next]_vars

\* the browser runs a timer callback once it is due, and time passes
\* the whole application: at most MaxGen generations, with the editor opened
\* and the buffer edited before the first generation, on a list that holds
\* the loaded creation only and a stack of at most MaxViewHist entries
GenInBounds == Generated(appHistory) + InFlight < MaxGen
BeforeGen ==
    /\ InFlight = 0
    /\ Generated(appHistory) = 0
    /\ appHistory = <<activeCreation>>
    /\ sessionTokens = 0
AppViewInBounds == Len(history) <= MaxViewHist /\ BeforeGen
AppEditInBounds == AppViewInBounds /\ editableCode = debouncedCode

NextApp ==
    \/ GenInBounds /\ Generate
    \/ \E h \in GenTexts, u \in Usages, stale \in BOOLEAN : Settle(h, u, stale)
    \/ \E i \in 1..(Cardinality(Ids) + MaxGen) : Select(i)
    \/ \E c \in ImportFiles : Import(c)
    \/ Reset
    \/ \E t \in Texts : AppEditInBounds /\ Edit(t)
    \/ Save
    \/ AppViewInBounds /\ Toggle
    \/ PreviewFire
    \/ SnapFire
    \/ Tick

SpecApp == InitApp /\ [][NextApp]_vars

SpecLive ==
    /\ Init
    /\ [][Next]_vars
    /\ WF_vars(PreviewFire)
    /\ WF_vars(SnapFire)
    /\ WF_vars(Tick)

------------------------------------------------------------------------------
\* A second starting point for the capacity cases: a creation that has been
\* edited until its stack is within CapSlack of HistCap, settled, with the
\* index anywhere in the stack (the state HistCap - 1 settled edits and some
\* undos lead to).

Other(text) == IF text = "A" THEN "B" ELSE "A"
Alternating(first, n) == [k \in 1..n |-> IF k % 2 = 1 THEN first ELSE Other(first)]

InitCap ==
    \E first \in Texts \ {""}, n \in (HistCap - CapSlack)..HistCap :
        /\ history = Alternating(first, n)
        /\ historyIndex \in {i \in 0..(n - 1) : i = 0 \/ i >= n - 1 - CapSlack}
        /\ editableCode = history[historyIndex + 1]
        /\ debouncedCode = editableCode
        /\ activeCreation = [id |-> "a1", html |-> editableCode, name |-> "n1"]
        /\ appHistory = <<activeCreation>>
        /\ showCodeEditor = TRUE
        /\ isSyncing = FALSE
        /\ lastSaved = TRUE
        /\ isInternalChange = FALSE
        /\ prevCreationId = "a1"
        /\ previewTimer = NoTimer
        /\ snapTimer = NoTimer
        /\ previewArgs = NoTask
        /\ snapArgs = NoTask
        /\ persistCall = << >>
        /\ pushCall = << >>
        /\ bufOwner = "a1"
        /\ burst = IdleBurst
        /\ trip = NoTrip
        /\ scen = NoScen
    /\ saved = NoSave
    /\ hop = << >>
    /\ exported = << >>
    /\ isGenerating = FALSE
    /\ sessionTokens = 0
    /\ pending = NoPending
    /\ genCall = "none"

SpecCap == InitCap /\ [][Next]_vars

------------------------------------------------------------------------------
\* Claims

C2_NoStaleWrite ==
    /\ (persistCall # << >> /\ persistCall[1].by = "timer") =>
           persistCall[1].id = bufOwner
    /\ (pushCall # << >> /\ activeCreation # Null) => bufOwner = activeCreation.id

\* C3: a redo that follows an undo at once leaves the buffer equal to the
\* buffer content just before the undo.
C3_UndoRedoRestores == trip.phase = "redone" => editableCode = trip.text

\* a step that hands LivePreview a creation with an id it has not seen last
NewLoad == activeCreation' # Null /\ activeCreation'.id # prevCreationId

\* C4: loading a new artifact yields the stack [content] with index 0, undo
\* and redo both unavailable, whatever the content.
C4_LoadResetsStack ==
    [][NewLoad => /\ history' = <<activeCreation'.html>>
                  /\ historyIndex' = 0
                  /\ ~(historyIndex' > 0)
                  /\ ~(historyIndex' < Len(history') - 1)]_vars

\* C5: loading a new artifact sets the buffer and the debounced copy to its
\* content and clears lastSaved, for every content; with empty content the
\* buffer is empty and the stack is the single empty snapshot.
C5_LoadSetsBuffer ==
    [][NewLoad => /\ editableCode' = activeCreation'.html
                  /\ debouncedCode' = activeCreation'.html
                  /\ lastSaved' = FALSE
                  /\ activeCreation'.html = "" =>
                         editableCode' = "" /\ history' = <<"">>]_vars

\* C6: while an artifact is loaded the stack is non-empty and
\* 0 <= index < length.
C6_IndexInRange ==
    activeCreation # Null =>
        /\ Len(history) > 0
        /\ 0 <= historyIndex
        /\ historyIndex < Len(history)

\* C7: the stack never holds more than HistCap entries.
C7_LengthBounded == Len(history) <= HistCap

C7_Witness ==
    /\ pushCall # << >>
    /\ pushCall[1].len = HistCap
    /\ Len(history) = HistCap

\* C8: a push made with the index on the last slot of a full stack evicts
\* exactly the oldest entry, keeps the others in order, and leaves the index
\* on the pushed snapshot.
C8_EvictsOldest ==
    [][(pushCall' # << >> /\ Len(history) = HistCap /\ historyIndex = HistCap - 1) =>
           /\ historyIndex' = HistCap - 1
           /\ history' = Append(Tail(history), pushCall'[1].text)
           /\ history'[historyIndex' + 1] = pushCall'[1].text]_vars

C8_Witness ==
    /\ pushCall # << >>
    /\ pushCall[1].at = HistCap - 1
    /\ pushCall[1].len = HistCap

\* C9 (as stated): a push at index i turns the stack into old[0..i] followed
\* by the pushed content, and redo is unavailable after it.
C9_PushKeepsPrefix ==
    [][pushCall' # << >> =>
           /\ history' = Append(SubSeq(history, 1, historyIndex + 1), pushCall'[1].text)
           /\ ~(historyIndex' < Len(history') - 1)]_vars

\* C9 (amended): a push at index i turns the stack into old[0..i] followed by
\* the pushed content, less the oldest entry when that would exceed HistCap
\* entries; redo is unavailable after it.
C9_PushTruncates ==
    [][pushCall' # << >> =>
           LET kept == SubSeq(history, 1, historyIndex + 1)
           IN /\ history' = IF Len(kept) < HistCap
                            THEN Append(kept, pushCall'[1].text)
                            ELSE Append(Tail(kept), pushCall'[1].text)
              /\ ~(historyIndex' < Len(history') - 1)]_vars

C9_Witness ==
    /\ pushCall # << >>
    /\ pushCall[1].at < pushCall[1].len - 1
    /\ Len(history) = pushCall[1].at + 2

\* C10: after load(c), edit(t) with t # c and Ds of quiet the stack is [c, t]
\* with index 1; a following undo gives buffer c and index 0; a following redo
\* gives buffer t and index 1.
C10_LoadEditUndoRedo ==
    /\ (scen.phase = "edited" /\ scen.t # scen.c /\ Quiet) =>
           history = <<scen.c, scen.t>> /\ historyIndex = 1
    /\ (scen.phase = "undone" /\ scen.t # scen.c) =>
           editableCode = scen.c /\ historyIndex = 0
    /\ (scen.phase = "redone" /\ scen.t # scen.c) =>
           editableCode = scen.t /\ historyIndex = 1

\* the step is a call of handleSave
SaveStep == persistCall' # << >> /\ persistCall'[1].by = "save"

\* C11: a manual save made while an edit is pending (the preview timer has not
\* fired yet) records the saved timestamp, makes the debounced copy equal to
\* the buffer, and leaves the indicator on Synced at once.
C11_SaveSyncsAtOnce ==
    [][(SaveStep /\ previewTimer # NoTimer) =>
           /\ lastSaved'
           /\ debouncedCode' = editableCode'
           /\ ~isSyncing']_vars

\* C12: a manual save calls onUpdate only if the buffer differs from the
\* content the artifact was last persisted with.
C12_SaveOnlyIfChanged ==
    [][SaveStep => editableCode # activeCreation.html]_vars

\* C18: the indicator is Syncing exactly when the buffer differs from the
\* debounced copy.
C18_SyncingIffDiffers == isSyncing <=> editableCode # debouncedCode

\* C19: right after every load of a new artifact the indicator is Synced.
C19_LoadIsSynced == [][NewLoad => ~isSyncing']_vars

\* C13: once a manual save has persisted the buffer, a timer callback that
\* runs before the buffer changes again makes no persist call and leaves the
\* stored creations and the active creation as they are.
C13_FiringAfterSaveIsNoop ==
    [][saved'.fired => /\ persistCall' = << >>
                       /\ appHistory' = appHistory
                       /\ activeCreation' = activeCreation]_vars

C13_Witness ==
    /\ saved.fired
    /\ pushCall # << >>
    /\ pushCall[1].text = activeCreation.html

\* C14: undo and redo create no history entry: from the first undo or redo
\* until the next edit or load, through every timer callback, the stack is
\* the one the undo or redo was called with.
C14_UndoRedoKeepStack == hop # << >> => history = hop[1]

C14_Witness ==
    /\ hop # << >>
    /\ persistCall # << >>
    /\ persistCall[1].by = "timer"
    /\ previewTimer = NoTimer
    /\ snapTimer = NoTimer
    /\ editableCode = debouncedCode

C16_UndoRedoMoveByOne ==
    [][/\ UndoDisabled <=> ~(historyIndex > 0)
       /\ RedoDisabled <=> ~(historyIndex < Len(history) - 1)
       /\ trip'.last = "undo" =>
              /\ historyIndex > 0
              /\ historyIndex' = historyIndex - 1
              /\ editableCode' = history'[historyIndex' + 1]
       /\ trip'.last = "redo" =>
              /\ historyIndex < Len(history) - 1
              /\ historyIndex' = historyIndex + 1
              /\ editableCode' = history'[historyIndex' + 1]
       /\ trip'.last = "noopUndo" => ~(historyIndex > 0)
       /\ trip'.last = "noopRedo" => ~(historyIndex < Len(history) - 1)]_vars

C16_Witness ==
    /\ trip.last = "undo"
    /\ historyIndex = 1
    /\ Len(history) = 3

\* C17: when a burst of edits ends on the text of the snapshot at the index,
\* the stack and the index are after Ds what they were before the burst.
C17_NoDuplicateEntry ==
    (Quiet /\ Len(burst.h0) > 0 /\ editableCode = burst.h0[burst.i0 + 1]) =>
        history = burst.h0 /\ historyIndex = burst.i0

C17_Witness ==
    /\ Quiet
    /\ burst.edits = 2
    /\ Len(burst.h0) > 0
    /\ editableCode # ""
    /\ editableCode = burst.h0[burst.i0 + 1]

\* a step that leaves the buffer and the loaded artifact alone: no edit, undo,
\* redo, load or reset; the creation changes only by a persist call
NoMutation ==
    /\ editableCode' = editableCode
    /\ activeCreation' # Null
    /\ trip'.last # "load"

Consistent ==
    /\ debouncedCode = editableCode
    /\ activeCreation.html = editableCode
    /\ ~isSyncing

\* C20: while an artifact stays loaded, once edits, undos and redos have
\* stopped, the engine reaches and keeps a state where the debounced copy and
\* the artifact's persisted content equal the buffer and the indicator is
\* Synced.
C20_EventuallyConsistent ==
    (<>[](activeCreation # Null) /\ <>[][NoMutation]_vars) => <>[]Consistent

\* the step is a persist call made by the preview timer
TimerPersistStep == persistCall' # << >> /\ persistCall'[1].by = "timer"

\* C21: every persist call made by the preview timer and every push made by
\* the snapshot timer carries the buffer content of the moment the timer
\* fires.
C21_LastEditWins ==
    [][/\ TimerPersistStep => persistCall'[1].html = editableCode
       /\ pushCall' # << >> => pushCall'[1].text = editableCode]_vars

C21_Witness ==
    /\ burst.edits = 2
    /\ burst.short
    /\ persistCall # << >>
    /\ persistCall[1].by = "timer"
    /\ persistCall[1].html = editableCode

\* C22: between two persist calls made by the preview timer the buffer
\* changes.
C22_OnePersistPerBurst == [][TimerPersistStep => ~saved.auto]_vars

C22_Witness ==
    /\ persistCall # << >>
    /\ persistCall[1].by = "timer"
    /\ Len(history) = 2
    /\ historyIndex = 1
    /\ persistCall[1].html # history[2]

\* C23: a persist call hands over the loaded creation with only its html
\* replaced; the list gets exactly the record with that id replaced, keeps its
\* other records, its length and its order, and the same update applied again
\* changes nothing.
C23_PersistReplacesOneRecord ==
    [][persistCall' # << >> =>
           LET rec == persistCall'[1]
           IN /\ rec.id = activeCreation.id
              /\ rec.name = activeCreation.name
              /\ activeCreation' = [activeCreation EXCEPT !.html = rec.html]
              /\ Len(appHistory') = Len(appHistory)
              /\ \A i \in DOMAIN appHistory :
                     appHistory'[i] = IF appHistory[i].id = rec.id
                                      THEN activeCreation'
                                      ELSE appHistory[i]
              /\ UpdateCreation(appHistory', activeCreation') = appHistory']_vars

C23_Witness ==
    /\ persistCall # << >>
    /\ Len(appHistory) = 2
    /\ \E i, j \in DOMAIN appHistory :
           /\ appHistory[i].id = persistCall[1].id
           /\ appHistory[i].html = persistCall[1].html
           /\ appHistory[j].id # persistCall[1].id

\* C24: in every mode the iframe is given the debounced copy, never the live
\* buffer.
C24_RendererGetsDebounced == PreviewShown => SrcDoc = debouncedCode

\* C25: an export writes the loaded creation with the current buffer as its
\* html, and changes no state of App or LivePreview and no timer.
C25_ExportReadsBuffer ==
    [][exported' # << >> =>
           /\ exported'[1].html = editableCode
           /\ exported'[1].id = activeCreation.id
           /\ exported'[1].name = activeCreation.name
           /\ UNCHANGED <<appVars, lpVars, timerVars>>]_vars

C25_Witness ==
    /\ exported # << >>
    /\ previewTimer > 0
    /\ editableCode # debouncedCode
    /\ exported[1].html = editableCode

\* C26: a settled burst of user edits whose buffer differs from the snapshot
\* at the index is pushed as a new snapshot, the index on it, whatever the
\* buffer holds.
C26_SettledEditIsPushed ==
    (Quiet /\ Len(burst.h0) > 0 /\ editableCode # burst.h0[burst.i0 + 1]) =>
        /\ burst.nPush = 1
        /\ burst.pushed = editableCode
        /\ history[historyIndex + 1] = editableCode

\* C27: the preview timer's callback makes the debounced copy equal to the
\* buffer, and with a creation loaded it calls onUpdate and stamps lastSaved
\* exactly when the buffer differs from creation.html.
C27_PreviewFirePersistsIffChanged ==
    [][saved'.fire = "preview" =>
           /\ debouncedCode' = editableCode
           /\ persistCall' # << >> <=>
                  (activeCreation # Null /\ editableCode # activeCreation.html)
           /\ persistCall' # << >> => lastSaved' /\ persistCall'[1].html = editableCode
           /\ persistCall' = << >> => lastSaved' = lastSaved]_vars

C27_Witness ==
    /\ saved.fire = "preview"
    /\ persistCall = << >>
    /\ activeCreation # Null
    /\ debouncedCode = editableCode

\* C28: isInternalChange is never left set by an event, and the first user
\* edit after an undo or redo, when it differs from the snapshot at the index,
\* is pushed once it has settled.
C28_FirstEditAfterUndoCaptured ==
    [][/\ ~isInternalChange'
       /\ (trip'.last = "hopEdit" /\ Quiet'
             /\ editableCode' # burst'.h0[burst'.i0 + 1]) =>
              /\ burst'.nPush = 1
              /\ history'[historyIndex' + 1] = editableCode']_vars

\* C29 (as stated): an undo or redo leaves a pending snapshot timer pending.
C29_UndoKeepsPendingTask ==
    [][(trip'.last \in {"undo", "redo"} /\ trip'.armed) => snapTimer' = snapTimer]_vars

\* C29 (amended): an undo or redo cancels the pending snapshot timer and arms
\* none: the effect run that follows it reads and clears isInternalChange, no
\* push is made, and no snapshot timer is pending until the next edit or load.
C29_UndoCancelsPendingTask ==
    [][/\ trip'.last \in {"undo", "redo"} =>
              /\ snapTimer' = NoTimer
              /\ snapArgs' = NoTask
              /\ ~isInternalChange'
              /\ pushCall' = << >>
       /\ hop' # << >> => snapTimer' = NoTimer /\ pushCall' = << >>]_vars

C29_Witness ==
    /\ trip.last = "undo"
    /\ trip.armed
    /\ trip.text # history[historyIndex + 2]
    /\ snapTimer = NoTimer

\* C30: during a burst of edits with gaps smaller than Dp, and until Dp has
\* passed after its last edit, the debounced copy keeps the value it had when
\* the burst began.
C30_DebouncedStableInBurst ==
    (burst.ok /\ burst.short /\ burst.since < Dp) => debouncedCode = burst.d0

C30_Witness ==
    /\ burst.ok
    /\ burst.short
    /\ burst.edits = 2
    /\ burst.since = Dp - TickMs
    /\ editableCode # debouncedCode
    /\ debouncedCode = burst.d0

\* the step is a user edit of the buffer
EditStep == editableCode' # editableCode /\ burst'.ok

\* the step is the callback of one of the two timers
FireStep == saved'.fire # "none"

\* C31 (as stated): every user edit leaves a fresh timer pending on both
\* channels.
C31_EditArmsBoth == [][EditStep => previewTimer' = Dp /\ snapTimer' = Ds]_vars

\* C31 (amended): every user edit drops the pending timers; it leaves a fresh
\* snapshot timer for the new buffer, and a fresh preview timer for the new
\* buffer unless the new buffer equals the debounced copy, in which case no
\* preview timer is pending; a timer callback that runs is the one armed for
\* the current buffer.
C31_EditRearms ==
    [][/\ EditStep =>
              /\ snapTimer' = Ds
              /\ snapArgs' # NoTask
              /\ snapArgs'[1].code = editableCode'
              /\ previewTimer' = IF editableCode' = debouncedCode THEN NoTimer ELSE Dp
              /\ previewTimer' = Dp =>
                     previewArgs' # NoTask /\ previewArgs'[1].code = editableCode'
              /\ previewTimer' = NoTimer => previewArgs' = NoTask
       /\ (FireStep /\ saved'.fire = "preview") => previewArgs[1].code = editableCode
       /\ (FireStep /\ saved'.fire = "snap") => snapArgs[1].code = editableCode]_vars

C31_Witness ==
    /\ burst.ok
    /\ burst.edits = 2
    /\ burst.since = 0
    /\ previewTimer = Dp
    /\ snapTimer = Ds
    /\ previewArgs[1].code = editableCode

\* C32: when the snapshot timer pushes a single settled edit that changed the
\* buffer away from the debounced copy, the preview timer has fired for it
\* before (the debounced copy and creation.html hold
\* the edit, no preview timer is pending), and a persist call of the preview
\* timer leaves the stack and the pending snapshot timer as they are.
C32_PreviewBeforePush ==
    [][/\ (pushCall' # << >> /\ burst.ok /\ burst.edits = 1
             /\ editableCode # burst.d0) =>
              /\ debouncedCode = editableCode
              /\ previewTimer = NoTimer
              /\ activeCreation # Null => activeCreation.html = editableCode
       /\ TimerPersistStep =>
              UNCHANGED <<snapTimer, snapArgs, history, historyIndex>>]_vars

C32_Witness ==
    /\ pushCall # << >>
    /\ burst.ok
    /\ burst.edits = 1
    /\ burst.nPersist = 1
    /\ burst.nPush = 1
    /\ burst.persisted = burst.pushed

\* C33: while the editor-mode iframe stays rendered, its key changes whenever
\* the debounced copy changes, and only then.
C33_KeyFollowsContent ==
    [][(EditorShown /\ EditorShown') =>
           (IframeKey' # IframeKey <=> debouncedCode' # debouncedCode)]_vars

\* C34: while no creation is loaded, no timer callback pushes a snapshot,
\* changes the debounced copy or calls onUpdate.
C34_NothingFiresAfterReset ==
    [][(activeCreation = Null /\ activeCreation' = Null) =>
           /\ pushCall' = << >>
           /\ persistCall' = << >>
           /\ history' = history
           /\ debouncedCode' = debouncedCode]_vars

\* C35: no two adjacent entries of the stack are equal.
C35_NoAdjacentEqual ==
    \A k \in 1..(Len(history) - 1) : history[k] # history[k + 1]

C35_Witness ==
    /\ Len(history) = 3
    /\ historyIndex = 2
    /\ history[1] = history[3]
    /\ pushCall # << >>

\* C36: with a creation loaded and no snapshot timer pending, the buffer is
\* the snapshot at the index.
C36_BufferIsSnapshot ==
    (activeCreation # Null /\ snapTimer = NoTimer) =>
        /\ historyIndex \in 0..(Len(history) - 1)
        /\ history[historyIndex + 1] = editableCode

\* C37: a running bringToLife call keeps isGenerating set, at most one call
\* is running at a time, and the result of a call started before a reset is
\* never made the active creation.
C37_OneRequestInFlight ==
    /\ InFlight > 0 => isGenerating
    /\ InFlight <= 1
    /\ genCall # "staleLoaded"

\* the ids of the records of the list are pairwise distinct
DistinctIds(list) == \A i, j \in DOMAIN list : i # j => list[i].id # list[j].id

\* C38: the ids of the list stay pairwise distinct, and a load of a creation
\* whose id is in the list (an import of it, or its selection) leaves the list
\* as it is.
C38_IdsStayDistinct ==
    [][/\ DistinctIds(appHistory)
       /\ DistinctIds(appHistory')
       /\ (trip'.last = "load" /\ genCall' = "none"
             /\ \E i \in DOMAIN appHistory : appHistory[i].id = activeCreation'.id) =>
              appHistory' = appHistory]_vars

C38_Witness ==
    /\ Len(appHistory) >= 3
    /\ persistCall # << >>
    /\ \E i, j \in DOMAIN appHistory :
           /\ appHistory[i].id = GenIds[1]
           /\ appHistory[j].id \in {c.id : c \in ImportFiles}
    /\ \E i \in DOMAIN appHistory : appHistory[i] = activeCreation

\* C39: with sessionTokens at 95% of SESSION_TOKEN_LIMIT or more, a call of
\* handleGenerate starts nothing and changes no state; sessionTokens never
\* decreases.
C39_NoGenerationAtLimit ==
    [][/\ (sessionTokens * 100 >= 95 * SESSION_TOKEN_LIMIT
             /\ genCall' \in {"started", "refused"}) =>
              /\ genCall' = "refused"
              /\ UNCHANGED <<appVars, genVars, lpVars, timerVars>>
       /\ sessionTokens' >= sessionTokens]_vars

C39_Witness ==
    /\ genCall = "refused"
    /\ sessionTokens * 100 >= 95 * SESSION_TOKEN_LIMIT
    /\ Generated(appHistory) > 0
    /\ ~isGenerating

\* C40: sessionTokens never exceeds SESSION_TOKEN_LIMIT.
C40_TokensWithinLimit == sessionTokens <= SESSION_TOKEN_LIMIT

====
